---------------------------- MODULE Spec2Model ----------------------------
(***************************************************************************)
(* GradientBackground: a React component that tweens the parameters of a   *)
(* shader gradient when a 'gradient-transition' event names a new zone.    *)
(* Two variants of the component exist in the repository:                  *)
(*   "zone"    src/src/components/GradientBackground.tsx (13 numeric       *)
(*             camera/shader parameters and the discrete 'type'),          *)
(*   "section" src/unnamed/part_000 (three hex colours and positionY).     *)
(* Their control flow (animateTo / step / handleTransition / cleanup) is   *)
(* the same; the variable 'variant' fixes which one a behaviour is about.  *)
(*                                                                         *)
(* JavaScript numbers are IEEE-754 binary64 values.  They are modelled     *)
(* exactly: a number is sign * mantissa * 2^exponent with a 53-bit         *)
(* mantissa, and every arithmetic operation rounds its exact result to     *)
(* nearest, ties to even.  Mantissas are naturals written in base 2^15     *)
(* (least significant limb first), since TLC's integers are 32 bits wide.  *)
(***************************************************************************)
EXTENDS Integers, Sequences, FiniteSets, TLC

(***************************************************************************)
(* Naturals of arbitrary size: a sequence of limbs, least significant      *)
(* first, without leading zero limbs; <<>> is zero.                        *)
(***************************************************************************)
LimbBits == 15
LimbBase == 2^LimbBits

RECURSIVE NNorm(_)
NNorm(a) == IF a = <<>> THEN <<>>
            ELSE IF a[Len(a)] = 0 THEN NNorm(SubSeq(a, 1, Len(a) - 1)) ELSE a

RECURSIVE NFromInt(_)
NFromInt(n) == IF n = 0 THEN <<>> ELSE <<n % LimbBase>> \o NFromInt(n \div LimbBase)

RECURSIVE NToInt(_)
NToInt(a) == IF a = <<>> THEN 0 ELSE Head(a) + LimbBase * NToInt(Tail(a))

RECURSIVE NAddC(_, _, _)
NAddC(a, b, c) ==
    IF a = <<>> /\ b = <<>> THEN (IF c = 0 THEN <<>> ELSE <<c>>)
    ELSE LET x == IF a = <<>> THEN 0 ELSE Head(a)
             y == IF b = <<>> THEN 0 ELSE Head(b)
             s == x + y + c
         IN  <<s % LimbBase>> \o NAddC(IF a = <<>> THEN <<>> ELSE Tail(a),
                                       IF b = <<>> THEN <<>> ELSE Tail(b),
                                       s \div LimbBase)
NAdd(a, b) == NAddC(a, b, 0)

\* a - b - c for a >= b + c
RECURSIVE NSubC(_, _, _)
NSubC(a, b, c) ==
    IF a = <<>> THEN <<>>
    ELSE LET y == IF b = <<>> THEN 0 ELSE Head(b)
             d == Head(a) - y - c
         IN  <<d % LimbBase>> \o NSubC(Tail(a),
                                       IF b = <<>> THEN <<>> ELSE Tail(b),
                                       IF d < 0 THEN 1 ELSE 0)
NSub(a, b) == NNorm(NSubC(a, b, 0))

\* -1, 0, 1 as a < b, a = b, a > b
RECURSIVE NCmpTop(_, _, _)
NCmpTop(a, b, i) ==
    IF i = 0 THEN 0
    ELSE IF a[i] < b[i] THEN -1
    ELSE IF a[i] > b[i] THEN 1
    ELSE NCmpTop(a, b, i - 1)
NCmp(a, b) == IF Len(a) < Len(b) THEN -1
              ELSE IF Len(a) > Len(b) THEN 1
              ELSE NCmpTop(a, b, Len(a))

\* a * k + c for a limb k
RECURSIVE NMulS(_, _, _)
NMulS(a, k, c) ==
    IF a = <<>> THEN (IF c = 0 THEN <<>> ELSE <<c>>)
    ELSE LET p == Head(a) * k + c
         IN  <<p % LimbBase>> \o NMulS(Tail(a), k, p \div LimbBase)

RECURSIVE NMul(_, _)
NMul(a, b) ==
    IF a = <<>> \/ b = <<>> THEN <<>>
    ELSE NAdd(NMulS(a, Head(b), 0), <<0>> \o NMul(a, Tail(b)))

\* <<quotient, remainder>> of a by a limb d > 0; a is read from its top limb
RECURSIVE NDivSTop(_, _, _, _)
NDivSTop(a, d, i, r) ==
    IF i = 0 THEN <<<<>>, r>>
    ELSE LET cur  == r * LimbBase + a[i]
             rest == NDivSTop(a, d, i - 1, cur % d)
         IN  <<rest[1] \o <<cur \div d>>, rest[2]>>
NDivS(a, d) == LET qr == NDivSTop(a, d, Len(a), 0) IN <<NNorm(qr[1]), qr[2]>>

Zeros(n) == [i \in 1..n |-> 0]

NShl(a, n) == IF a = <<>> THEN <<>>
              ELSE Zeros(n \div LimbBits) \o NMulS(a, 2^(n % LimbBits), 0)

NShr(a, n) == IF n \div LimbBits >= Len(a) THEN <<>>
              ELSE NDivS(SubSeq(a, n \div LimbBits + 1, Len(a)), 2^(n % LimbBits))[1]

RECURSIVE IntBitLen(_)
IntBitLen(n) == IF n = 0 THEN 0 ELSE 1 + IntBitLen(n \div 2)

NBitLen(a) == IF a = <<>> THEN 0 ELSE LimbBits * (Len(a) - 1) + IntBitLen(a[Len(a)])

\* bit i (from 0) of a
NBit(a, i) == IF i < 0 \/ i \div LimbBits >= Len(a) THEN 0
              ELSE (a[i \div LimbBits + 1] \div 2^(i % LimbBits)) % 2

\* the n lowest bits of a are all zero
NLowZero(a, n) ==
    \/ n <= 0
    \/ a = <<>>
    \/ /\ \A i \in 1..(n \div LimbBits) : i > Len(a) \/ a[i] = 0
       /\ \/ n \div LimbBits >= Len(a)
          \/ a[n \div LimbBits + 1] % 2^(n % LimbBits) = 0

(***************************************************************************)
(* binary64 numbers.  [s, m, e] is s * m * 2^e with s in {-1, 0, 1}; a     *)
(* nonzero number has a mantissa of exactly MantBits bits, so equal        *)
(* numbers are equal records.  The exponent range of binary64 (overflow    *)
(* to Infinity, subnormals) is never approached by the component's values  *)
(* and is not modelled; the sign of zero is not kept.                      *)
(***************************************************************************)
MantBits == 53

FZero == [s |-> 0, m |-> <<>>, e |-> 0]

\* s * N * 2^e, N > 0 exact, rounded to nearest, ties to even
FRound(s, N, e) ==
    LET L == NBitLen(N) IN
    IF N = <<>> \/ s = 0 THEN FZero
    ELSE IF L <= MantBits
    THEN [s |-> s, m |-> NShl(N, MantBits - L), e |-> e - (MantBits - L)]
    ELSE LET d    == L - MantBits
             q    == NShr(N, d)
             up   == NBit(N, d - 1) = 1 /\ (~NLowZero(N, d - 1) \/ NBit(q, 0) = 1)
             q2   == IF up THEN NAdd(q, <<1>>) ELSE q
         IN  IF NBitLen(q2) > MantBits
             THEN [s |-> s, m |-> NShr(q2, 1), e |-> e + d + 1]
             ELSE [s |-> s, m |-> q2, e |-> e + d]

FromInt(n) == IF n = 0 THEN FZero
              ELSE FRound(IF n < 0 THEN -1 ELSE 1, NFromInt(IF n < 0 THEN -n ELSE n), 0)

FNeg(x) == [x EXCEPT !.s = -x.s]

FAdd(x, y) ==
    IF x.s = 0 THEN y
    ELSE IF y.s = 0 THEN x
    ELSE LET e == IF x.e < y.e THEN x.e ELSE y.e
             X == NShl(x.m, x.e - e)
             Y == NShl(y.m, y.e - e)
             c == NCmp(X, Y)
         IN  IF x.s = y.s THEN FRound(x.s, NAdd(X, Y), e)
             ELSE IF c = 0 THEN FZero
             ELSE IF c > 0 THEN FRound(x.s, NSub(X, Y), e)
             ELSE FRound(y.s, NSub(Y, X), e)

FSub(x, y) == FAdd(x, FNeg(y))

FMul(x, y) == IF x.s = 0 \/ y.s = 0 THEN FZero
              ELSE FRound(x.s * y.s, NMul(x.m, y.m), x.e + y.e)

\* x / d for an integer d in 1..LimbBase-1: the quotient is computed to
\* MantBits + 2 bits or more, with one more bit that is set when the
\* division left a remainder
FDivInt(x, d) ==
    IF x.s = 0 THEN FZero
    ELSE LET qr == NDivS(NShl(x.m, LimbBits + 2), d)
             N  == NAddC(NShl(qr[1], 1), <<>>, IF qr[2] = 0 THEN 0 ELSE 1)
         IN  FRound(x.s, N, x.e - LimbBits - 3)

\* -1, 0, 1 as x < y, x = y, x > y
FCmp(x, y) ==
    IF x.s # y.s THEN (IF x.s < y.s THEN -1 ELSE 1)
    ELSE IF x.s = 0 THEN 0
    ELSE LET c == IF x.e # y.e THEN (IF x.e < y.e THEN -1 ELSE 1) ELSE NCmp(x.m, y.m)
         IN  x.s * c

FLt(x, y) == FCmp(x, y) < 0
FLeq(x, y) == FCmp(x, y) <= 0

\* Math.min
MathMin(x, y) == IF FLt(y, x) THEN y ELSE x

\* Math.pow(x, 3): the exact cube, rounded once
MathPow3(x) == IF x.s = 0 THEN FZero
               ELSE FRound(x.s, NMul(NMul(x.m, x.m), x.m), 3 * x.e)

\* Math.round: the nearest integer, a tie going up; the result as an integer
MathRound(x) ==
    IF x.s = 0 THEN 0
    ELSE IF x.e >= 0 THEN x.s * NToInt(NShl(x.m, x.e))
    ELSE LET k      == -x.e
             ip     == NToInt(NShr(x.m, k))
             half   == NBit(x.m, k - 1) = 1
             sticky == ~NLowZero(x.m, k - 1)
         IN  IF x.s > 0 THEN ip + (IF half THEN 1 ELSE 0)
             ELSE -(ip + (IF half /\ sticky THEN 1 ELSE 0))

\* the decimal literal n/10
Dec(n) == FDivInt(FromInt(n), 10)


One == FromInt(1)

(***************************************************************************)
(* Strings are sequences of one-character strings.                         *)
(***************************************************************************)
HexDigits == <<"0", "1", "2", "3", "4", "5", "6", "7",
               "8", "9", "a", "b", "c", "d", "e", "f">>

IsHexDigit(c) == \E i \in 1..16 : HexDigits[i] = c

HexVal(c) == (CHOOSE i \in 1..16 : HexDigits[i] = c) - 1

\* String.prototype.slice(1)
Slice1(str) == IF str = <<>> THEN <<>> ELSE Tail(str)

\* parseInt(str, 16) of a string without sign, blanks or 0x prefix: the value
\* of its longest prefix of hex digits.  Without such a prefix parseInt gives
\* NaN, which the shifts of hexToRgb turn into 0, the value given here.
RECURSIVE ParseHexAcc(_, _)
ParseHexAcc(str, acc) ==
    IF str = <<>> \/ ~IsHexDigit(Head(str)) THEN acc
    ELSE ParseHexAcc(Tail(str), acc * 16 + HexVal(Head(str)))
ParseInt16(str) == ParseHexAcc(str, 0)

\* Number.prototype.toString(16) of an integer
RECURSIVE HexOfNat(_)
HexOfNat(n) == IF n < 16 THEN <<HexDigits[n + 1]>>
               ELSE HexOfNat(n \div 16) \o <<HexDigits[(n % 16) + 1]>>
ToString16(n) == IF n < 0 THEN <<"-">> \o HexOfNat(-n) ELSE HexOfNat(n)

\* a | b on 32-bit two's complement integers
RECURSIVE BitOr(_, _)
BitOr(a, b) ==
    IF a = 0 THEN b
    ELSE IF b = 0 THEN a
    ELSE IF a = -1 \/ b = -1 THEN -1
    ELSE 2 * BitOr(a \div 2, b \div 2) + (IF a % 2 = 1 \/ b % 2 = 1 THEN 1 ELSE 0)

\* a << n for an a that the shift does not overflow
ShiftLeft(a, n) == a * 2^n

(***************************************************************************)
(* The pure functions of the component.                                    *)
(***************************************************************************)
hexToRgb(hex) ==
    LET n == ParseInt16(Slice1(hex))
    IN  <<(n \div 2^16) % 256, (n \div 2^8) % 256, n % 256>>

\* r, g, b are numbers; Math.round makes them integers
rgbToHex(r, g, b) ==
    <<"#">> \o Slice1(ToString16(
        BitOr(BitOr(BitOr(ShiftLeft(1, 24), ShiftLeft(MathRound(r), 16)),
                    ShiftLeft(MathRound(g), 8)),
              MathRound(b))))

\* the channel c1 + (c2 - c1) * t of lerpColor, before rounding
lerpChannel(c1, c2, t) == FAdd(FromInt(c1), FMul(FromInt(c2 - c1), t))

lerpColor(from, to, t) ==
    LET c1 == hexToRgb(from)
        c2 == hexToRgb(to)
    IN  rgbToHex(lerpChannel(c1[1], c2[1], t),
                 lerpChannel(c1[2], c2[2], t),
                 lerpChannel(c1[3], c2[3], t))

lerp(a, b, t) == FAdd(a, FMul(FSub(b, a), t))

easeOutCubic(t) == FSub(One, MathPow3(FSub(One, t)))

TRANSITION_DURATION == 700

(***************************************************************************)
(* The configuration tables.                                               *)
(***************************************************************************)
numericKeys == {"cameraZoom", "cAzimuthAngle", "cPolarAngle", "cDistance",
                "rotationX", "rotationY", "rotationZ", "positionX",
                "fov", "pixelDensity", "uDensity", "uSpeed", "uStrength"}

\* an entry of ZONE_CONFIGS; its numbers are written in tenths (50 is the
\* literal 5.0, 1600 the literal 160) and are the doubles of these literals
ZoneConfig(cameraZoom, cAzimuthAngle, cPolarAngle, cDistance, rotationX, rotationY, rotationZ, positionX, fov, pixelDensity, uDensity, uSpeed, uStrength, type) ==
    LET tenths == [cameraZoom |-> cameraZoom, cAzimuthAngle |-> cAzimuthAngle,
                   cPolarAngle |-> cPolarAngle, cDistance |-> cDistance,
                   rotationX |-> rotationX, rotationY |-> rotationY,
                   rotationZ |-> rotationZ, positionX |-> positionX,
                   fov |-> fov, pixelDensity |-> pixelDensity,
                   uDensity |-> uDensity, uSpeed |-> uSpeed,
                   uStrength |-> uStrength]
    IN  [key \in numericKeys \cup {"type"} |->
            IF key = "type" THEN type ELSE Dec(tenths[key])]

ZONE_CONFIGS == <<
    ZoneConfig(50, 1600, 900, 25, 0, 0, 0, -29, 450, 13, 30, 1, 38, "sphere"),
    ZoneConfig(23, 1800, 700, 36, 450, 100, 500, -26, 450, 13, 30, 1, 38, "sphere"),
    ZoneConfig(23, 1800, 900, 36, 900, 300, 1000, -34, 450, 13, 30, 1, 38, "sphere"),
    ZoneConfig(23, 1800, 1100, 36, 50, 500, 300, -26, 450, 13, 30, 1, 38, "sphere"),
    ZoneConfig(10, 1800, 900, 36, 0, 100, 500, -14, 500, 10, 13, 4, 40, "waterPlane")
>>

SectionConfig(color1, color2, color3, positionY) ==
    [color1 |-> color1, color2 |-> color2, color3 |-> color3,
     positionY |-> positionY]

SECTION_CONFIGS == <<
    SectionConfig(<<"#", "f", "f", "5", "0", "0", "5">>,
                  <<"#", "d", "b", "b", "a", "9", "5">>,
                  <<"#", "d", "0", "b", "c", "e", "1">>, Dec(-18)),
    SectionConfig(<<"#", "f", "f", "5", "0", "0", "5">>,
                  <<"#", "d", "b", "b", "a", "9", "5">>,
                  <<"#", "d", "0", "b", "c", "e", "1">>, Dec(-18)),
    SectionConfig(<<"#", "0", "4", "6", "6", "c", "8">>,
                  <<"#", "7", "a", "b", "8", "c", "c">>,
                  <<"#", "c", "1", "d", "0", "c", "8">>, Dec(-6)),
    SectionConfig(<<"#", "2", "e", "a", "b", "5", "e">>,
                  <<"#", "a", "8", "d", "8", "4", "0">>,
                  <<"#", "d", "2", "e", "b", "d", "8">>, Dec(6)),
    SectionConfig(<<"#", "7", "b", "2", "c", "b", "f">>,
                  <<"#", "d", "1", "7", "d", "b", "8">>,
                  <<"#", "e", "6", "d", "0", "d", "e">>, Dec(18))
>>

colorKeys == {"color1", "color2", "color3"}

Variants == {"zone", "section"}

Configs(v) == IF v = "zone" THEN ZONE_CONFIGS ELSE SECTION_CONFIGS


(***************************************************************************)
(* Bounds of the model.  Time is in milliseconds.  The clock and the frame *)
(* timestamps take the values of TimePoints: the multiples of the          *)
(* transition's duration up to MaxTime and the instants FrameBudget after  *)
(* them.  A frame runs its callbacks at most FrameBudget after its         *)
(* timestamp.  animateTo is called at most MaxEvents times.                *)
(***************************************************************************)
MaxTime == 1400
MaxEvents == 2
FrameBudget == 10

TimePoints == {t \in 0..MaxTime : t % TRANSITION_DURATION \in {0, FrameBudget}}

\* the values of detail.zoneIndex: integers, a non-integer number (n + 1/2)
\* and undefined (no zoneIndex in the detail)
ZoneIndexInputs == [k : {"int"}, n : -1..5]
                   \cup {[k |-> "frac", n |-> 1], [k |-> "undefined", n |-> 0]}

\* arr[zoneIndex]: the set holding the element, empty when the lookup gives
\* undefined
ArrayGet(arr, zi) == IF zi.k = "int" /\ zi.n \in 0..(Len(arr) - 1)
                     THEN {arr[zi.n + 1]} ELSE {}

VARIABLES
    variant,        \* which of the two source files the component is
    gradientProps,  \* the React state given to <ShaderGradient>
    currentRef,     \* currentRef.current
    animFrameRef,   \* animFrameRef.current
    listening,      \* handleTransition is registered on window
    mounted,        \* the effect's cleanup has not run
    rafCallbacks,   \* the window's map of animation frame callbacks:
                    \* handle -> the closure of step (from, target, startTime)
    rafHandle,      \* the window's animation frame callback identifier
    clock,          \* performance.now()
    frameTs,        \* the timestamp of the current (or last) frame
    inFrame,        \* a frame has begun and its callbacks have not run yet
    nAnim,          \* history: the number of calls of animateTo
    lastZone,       \* history: the zoneIndex of the last event with a config
    lastStep,       \* history: the last run of step
    staleRan,       \* history: a step of a superseded transition has run
    evNote          \* history: "ignored" when the last action was a dispatch
                    \* that handleTransition ignored, "unheard" when it was
                    \* a dispatch without a listener, "none" otherwise

vars == <<variant, gradientProps, currentRef, animFrameRef, listening, mounted,
          rafCallbacks, rafHandle, clock, frameTs, inFrame,
          nAnim, lastZone, lastStep, staleRan, evNote>>

\* the part of the state that animateTo and step read and write
Comp == [gradientProps |-> gradientProps, currentRef |-> currentRef,
         animFrameRef |-> animFrameRef, rafCallbacks |-> rafCallbacks,
         rafHandle |-> rafHandle, nAnim |-> nAnim, lastStep |-> lastStep,
         staleRan |-> staleRan]

Install(st) ==
    /\ gradientProps' = st.gradientProps
    /\ currentRef' = st.currentRef
    /\ animFrameRef' = st.animFrameRef
    /\ rafCallbacks' = st.rafCallbacks
    /\ rafHandle' = st.rafHandle
    /\ nAnim' = st.nAnim
    /\ lastStep' = st.lastStep
    /\ staleRan' = st.staleRan

\* window.requestAnimationFrame(cb): the callback joins the map under a
\* new handle, which is returned (here: left in rafHandle)
RequestAnimationFrame(st, cb) ==
    [st EXCEPT !.rafHandle = @ + 1,
               !.rafCallbacks = [h \in DOMAIN @ \cup {st.rafHandle + 1} |->
                                   IF h = st.rafHandle + 1 THEN cb ELSE @[h]]]

\* window.cancelAnimationFrame(handle)
CancelAnimationFrame(st, handle) ==
    [st EXCEPT !.rafCallbacks = [h \in DOMAIN @ \ {handle} |-> @[h]]]

\* a variant of NewProps that keeps the old type until the transition ends
NewProps_TypeAtEnd(v, from, target, t) ==
    [key \in DOMAIN target |->
        IF key = "type" THEN (IF t = One THEN target.type ELSE from.type)
        ELSE IF key \in colorKeys THEN lerpColor(from[key], target[key], t)
        ELSE lerp(from[key], target[key], t)]

\* the parameters step computes for progress t
NewProps(v, from, target, t) ==
    [key \in DOMAIN target |->
        IF key = "type" THEN target.type
        ELSE IF key \in colorKeys THEN lerpColor(from[key], target[key], t)
        ELSE lerp(from[key], target[key], t)]

RawT(startTime, now) ==
    MathMin(FDivInt(FromInt(now - startTime), TRANSITION_DURATION), One)

\* the end of step(now): newProps is stored and rendered, and the next frame
\* is requested while the transition has not ended
StepStore(st, cb, now, t, more, newProps) ==
    LET st1 == [st EXCEPT !.currentRef = newProps,
                          !.gradientProps = newProps,
                          !.lastStep = [tid |-> cb.tid, from |-> cb.from,
                                        target |-> cb.target,
                                        startTime |-> cb.startTime,
                                        now |-> now, t |-> t, more |-> more],
                          !.staleRan = @ \/ cb.tid # st.nAnim]
        st2 == RequestAnimationFrame(st1, cb)
    IN  IF more
        THEN [st2 EXCEPT !.animFrameRef = st2.rafHandle]
        ELSE [st1 EXCEPT !.animFrameRef = 0]

\* step(now) of the closure cb, run by the frame
Step(v, st, cb, now) ==
    LET rawT == RawT(cb.startTime, now)
        t    == easeOutCubic(rawT)
    IN  StepStore(st, cb, now, t, FLt(rawT, One),
                  NewProps(v, cb.from, cb.target, t))

\* a variant of AnimateTo that does not cancel the frame it has requested
AnimateTo_NoCancel(st, target, now) ==
    LET cb  == [from |-> st.currentRef, target |-> target, startTime |-> now,
                tid |-> st.nAnim + 1]
        st2 == RequestAnimationFrame([st EXCEPT !.nAnim = @ + 1], cb)
    IN  [st2 EXCEPT !.animFrameRef = st2.rafHandle]

\* animateTo(target), called when performance.now() is 'now'
AnimateTo(st, target, now) ==
    LET st1 == IF st.animFrameRef # 0
               THEN CancelAnimationFrame(st, st.animFrameRef) ELSE st
        cb  == [from |-> st1.currentRef, target |-> target, startTime |-> now,
                tid |-> st1.nAnim + 1]
        st2 == RequestAnimationFrame([st1 EXCEPT !.nAnim = @ + 1], cb)
    IN  [st2 EXCEPT !.animFrameRef = st2.rafHandle]

\* a variant of HandleTransition that falls back to entry 0 of the table
HandleTransition_Fallback(v, st, zi, now) ==
    LET config == ArrayGet(Configs(v), zi)
    IN  IF config # {}
        THEN AnimateTo(st, CHOOSE c \in config : TRUE, now)
        ELSE AnimateTo(st, Configs(v)[1], now)

\* handleTransition(e) for e.detail.zoneIndex = zi
HandleTransition(v, st, zi, now) ==
    LET config == ArrayGet(Configs(v), zi)
    IN  IF config # {}
        THEN AnimateTo(st, CHOOSE c \in config : TRUE, now)
        ELSE st

\* a variant of Cleanup that leaves the requested frame pending
Cleanup_NoCancel(st) == st

\* the cleanup of the effect, after removeEventListener
Cleanup(st) ==
    IF st.animFrameRef # 0 THEN CancelAnimationFrame(st, st.animFrameRef) ELSE st

\* the frame runs the callbacks that were in the map when it started to run
\* them, in the order of their handles; each is removed as it is run, and one
\* cancelled meanwhile is skipped
RECURSIVE RunCallbacks(_, _, _, _)
RunCallbacks(v, st, handles, now) ==
    IF handles = {} THEN st
    ELSE LET h == CHOOSE x \in handles : \A y \in handles : x <= y
         IN  IF h \in DOMAIN st.rafCallbacks
             THEN RunCallbacks(v,
                      Step(v, CancelAnimationFrame(st, h), st.rafCallbacks[h], now),
                      handles \ {h}, now)
             ELSE RunCallbacks(v, st, handles \ {h}, now)

NoStep(v) == [tid |-> 0, from |-> Configs(v)[1], target |-> Configs(v)[1],
              startTime |-> 0, now |-> 0, t |-> FZero, more |-> FALSE]

Init ==
    /\ variant \in Variants
    /\ gradientProps = Configs(variant)[1]
    /\ currentRef = Configs(variant)[1]
    /\ animFrameRef = 0
    /\ listening = TRUE
    /\ mounted = TRUE
    /\ rafCallbacks = <<>>
    /\ rafHandle = 0
    /\ clock = 0
    /\ frameTs = 0
    /\ inFrame = FALSE
    /\ nAnim = 0
    /\ lastZone = 0
    /\ lastStep = NoStep(variant)
    /\ staleRan = FALSE
    /\ evNote = "none"

\* time passes; a frame that has begun runs its callbacks within FrameBudget
Tick ==
    /\ \E t \in TimePoints :
          /\ t > clock
          /\ inFrame => t - frameTs <= FrameBudget
          /\ clock' = t
    /\ evNote' = "none"
    /\ UNCHANGED <<variant, gradientProps, currentRef, animFrameRef, listening,
                   mounted, rafCallbacks, rafHandle, frameTs, inFrame,
                   nAnim, lastZone, lastStep, staleRan>>

\* the browser begins a frame: its timestamp is fixed now, its callbacks run
\* later in the frame, after the events the browser dispatches first
BeginFrame ==
    /\ ~inFrame
    /\ clock > frameTs
    /\ frameTs' = clock
    /\ inFrame' = TRUE
    /\ evNote' = "none"
    /\ UNCHANGED <<variant, gradientProps, currentRef, animFrameRef, listening,
                   mounted, rafCallbacks, rafHandle, clock,
                   nAnim, lastZone, lastStep, staleRan>>

\* the frame runs its animation frame callbacks with its timestamp
RunFrame ==
    /\ inFrame
    /\ inFrame' = FALSE
    /\ Install(RunCallbacks(variant, Comp, DOMAIN rafCallbacks, frameTs))
    /\ evNote' = "none"
    /\ UNCHANGED <<variant, listening, mounted, clock, frameTs, lastZone>>

\* window.dispatchEvent(new CustomEvent('gradient-transition', {detail: {zoneIndex}}))
Dispatch(zi) ==
    /\ listening /\ ArrayGet(Configs(variant), zi) # {} => nAnim < MaxEvents
    /\ IF listening
       THEN /\ Install(HandleTransition(variant, Comp, zi, clock))
            /\ IF ArrayGet(Configs(variant), zi) # {}
               THEN lastZone' = zi.n /\ evNote' = "none"
               ELSE lastZone' = lastZone /\ evNote' = "ignored"
       ELSE /\ Install(Comp)
            /\ lastZone' = lastZone
            /\ evNote' = "unheard"
    /\ UNCHANGED <<variant, listening, mounted, clock, frameTs, inFrame>>

\* React unmounts the component: the effect's cleanup runs
Unmount ==
    /\ mounted
    /\ mounted' = FALSE
    /\ listening' = FALSE
    /\ Install(Cleanup(Comp))
    /\ evNote' = "none"
    /\ UNCHANGED <<variant, clock, frameTs, inFrame, lastZone>>

Next ==
    \/ Tick
    \/ BeginFrame
    \/ RunFrame
    \/ \E zi \in ZoneIndexInputs : Dispatch(zi)
    \/ Unmount

Spec == Init /\ [][Next]_vars


(***************************************************************************)
(* Vocabulary of the properties.                                           *)
(***************************************************************************)
ConfigSet(v) == {Configs(v)[i] : i \in 1..Len(Configs(v))}

\* the keys of the parameters that are numbers
NumKeys(v) == IF v = "zone" THEN numericKeys ELSE {"positionY"}

\* the keys of the parameters that are colours
ColKeys(v) == IF v = "zone" THEN {} ELSE colorKeys

\* x lies between a and b, inclusive, whichever of a and b is the smaller
Between(a, x, b) == \/ FLeq(a, x) /\ FLeq(x, b)
                    \/ FLeq(b, x) /\ FLeq(x, a)

\* '#' followed by six lowercase hex digits
WellFormed(c) == /\ Len(c) = 7
                 /\ c[1] = "#"
                 /\ \A i \in 2..7 : IsHexDigit(c[i])

\* the colours of the table
ConfigColours == {SECTION_CONFIGS[i][k] : i \in 1..Len(SECTION_CONFIGS), k \in colorKeys}

\* step has run in this transition of the model
StepRan == lastStep' # lastStep

\* C1: a single concurrent animation: a mounted component has at most one
\* frame callback pending, the pending callback is the step of the latest
\* transition, and no step of a superseded transition has ever run.
C1_SingleAnimation ==
    /\ mounted => Cardinality(DOMAIN rafCallbacks) <= 1
    /\ \A h \in DOMAIN rafCallbacks : rafCallbacks[h].tid = nAnim
    /\ ~staleRan

\* a second transition interrupted the first in flight (it starts from values
\* that are no entry of the table) and has run a step
C1_Witness ==
    /\ mounted /\ nAnim = 2 /\ lastStep.tid = 2
    /\ lastStep.from \notin ConfigSet(variant)

\* C2: once the transition to the zone of the last event with a valid
\* zoneIndex has come to rest (animFrameRef is 0), the rendered parameters
\* equal that zone's entry of the table and no frame callback is pending.
C2_SettlesOnLastZone ==
    (mounted /\ animFrameRef = 0) =>
        /\ gradientProps = Configs(variant)[lastZone + 1]
        /\ DOMAIN rafCallbacks = {}

\* C3: a step whose timestamp is TRANSITION_DURATION or more after startTime
\* writes the target values, sets animFrameRef to 0 and requests no frame;
\* a step before that requests exactly one further frame and does not end
\* the transition.
C3_EndsAtDuration ==
    [][StepRan =>
        IF lastStep'.now - lastStep'.startTime >= TRANSITION_DURATION
        THEN /\ currentRef' = lastStep'.target
             /\ gradientProps' = lastStep'.target
             /\ animFrameRef' = 0
             /\ DOMAIN rafCallbacks' = {}
        ELSE /\ animFrameRef' # 0
             /\ DOMAIN rafCallbacks' = {animFrameRef'}
             /\ rafCallbacks'[animFrameRef'].tid = lastStep'.tid]_vars

\* C4: the eased progress t of every step lies in [0, 1] and every numeric
\* parameter the step wrote lies between its value in 'from' and its value
\* in 'target'.
C4_StaysBetween ==
    lastStep.tid # 0 =>
        /\ FLeq(FZero, lastStep.t) /\ FLeq(lastStep.t, One)
        /\ \A key \in NumKeys(variant) :
              Between(lastStep.from[key], currentRef[key], lastStep.target[key])

\* C5: whenever no animation is in flight (animFrameRef is 0), the rendered
\* parameters of a mounted component are exactly one of the five entries of
\* the table.
C5_RestsOnConfig ==
    (mounted /\ animFrameRef = 0) => gradientProps \in ConfigSet(variant)

\* C6: an event whose zoneIndex selects no entry of the table changes
\* nothing: currentRef, the rendered state, animFrameRef and the pending
\* frame callback (its target and startTime) stay as they are, and no frame
\* is requested.
C6_InvalidIgnored ==
    [][evNote' = "ignored" =>
        UNCHANGED <<gradientProps, currentRef, animFrameRef, rafCallbacks,
                    rafHandle, nAnim>>]_vars

\* an event without a config was dispatched while a transition was in flight
C6_Witness ==
    /\ evNote = "ignored"
    /\ animFrameRef # 0
    /\ DOMAIN rafCallbacks = {animFrameRef}
    /\ lastStep.tid = nAnim

\* C7: currentRef is always the rendered state; a transition that has not
\* run a step yet has captured the values on screen as its 'from'; and a
\* step with elapsed = 0 renders exactly the numbers and colours of 'from'.
C7_StartsFromScreen ==
    /\ currentRef = gradientProps
    /\ \A h \in DOMAIN rafCallbacks :
          rafCallbacks[h].tid # lastStep.tid => rafCallbacks[h].from = currentRef
    /\ (lastStep.tid # 0 /\ lastStep.now = lastStep.startTime) =>
          \A key \in NumKeys(variant) \cup ColKeys(variant) :
              currentRef[key] = lastStep.from[key]

\* lerpColor(a, b, 0) = a and lerpColor(a, b, 1) = b on the colours of the table
ColourEndpoints ==
    \A a \in ConfigColours, b \in ConfigColours :
        /\ lerpColor(a, b, FZero) = a
        /\ lerpColor(a, b, One) = b

\* C8: lerpColor gives its endpoints at t = 0 and t = 1, and for the t of
\* every step each rounded channel lies in 0..255 between the channels of
\* the two endpoints, so that every rendered colour is '#rrggbb'.
C8_ColoursWellFormed ==
    /\ ColourEndpoints
    /\ (variant = "section" /\ lastStep.tid # 0) =>
          \A key \in colorKeys :
              /\ WellFormed(currentRef[key])
              /\ \A i \in 1..3 :
                    LET c1 == hexToRgb(lastStep.from[key])[i]
                        c2 == hexToRgb(lastStep.target[key])[i]
                        c  == MathRound(lerpChannel(c1, c2, lastStep.t))
                    IN  /\ c \in 0..255
                        /\ (c1 <= c /\ c <= c2) \/ (c2 <= c /\ c <= c1)

\* C9: once the cleanup has run, no step runs, the rendered state and
\* currentRef never change, and events start no transition and request no
\* frame.
C9_DeadAfterCleanup ==
    [][~mounted =>
        UNCHANGED <<gradientProps, currentRef, animFrameRef, rafCallbacks,
                    rafHandle, nAnim, lastStep>>]_vars

\* the component was unmounted with a frame requested, a frame has run since
\* without running a step, and an event has been dispatched after that
C9_Witness ==
    /\ ~mounted
    /\ animFrameRef # 0
    /\ lastStep.tid = nAnim /\ lastStep.more
    /\ ~inFrame /\ frameTs > lastStep.now
    /\ evNote = "unheard"

\* C10: the rendered type is always 'sphere' or 'waterPlane'; the call of
\* animateTo leaves it as it was; every step renders the type of its target.
C10_TypeSwitchesAtFirstStep ==
    [][variant = "zone" =>
        /\ gradientProps'.type \in {"sphere", "waterPlane"}
        /\ nAnim' # nAnim => gradientProps'.type = gradientProps.type
        /\ StepRan => gradientProps'.type = lastStep'.target.type]_vars

\* a transition from a sphere to the water plane has run a step, has not
\* ended, and the water plane is rendered already
C10_Witness ==
    /\ variant = "zone"
    /\ lastStep.tid # 0 /\ lastStep.more
    /\ lastStep.from.type = "sphere"
    /\ gradientProps.type = "waterPlane"

=============================================================================
